---- MODULE Spec2Model ----
(***************************************************************************)
(* Model of src/linguistic-service/main.py: the Linguistic Analysis        *)
(* Service.  The module holds                                              *)
(*   - the text primitives the service uses (str.lower, str.strip,         *)
(*     str.split, the `in` containment test, re.search with \b),           *)
(*   - the five component functions (analyze_pos, analyze_readability,     *)
(*     analyze_orality, extract_discourse_markers, analyze_lingfeat) and   *)
(*     analyze_segment, as operators,                                      *)
(*   - the POST /analyze handler as a state machine (Spec), and            *)
(*   - direct calls of each component function (SpecComponents).           *)
(*                                                                         *)
(* A Python str is a sequence of one-character strings.  A Python float is *)
(* an exact rational [n |-> numerator, d |-> denominator], d > 0; a value  *)
(* passed through round(x, 2) is an integer count of hundredths.  The      *)
(* external capabilities (spaCy tagger, textstat, COAST, LingFeat) are the *)
(* environment: each call either raises or returns a value chosen from a   *)
(* small set.                                                              *)
(***************************************************************************)
EXTENDS Integers, Sequences, FiniteSets

VARIABLES
    nlp,                \* main.py:30-35   TRUE iff the spaCy model loaded
    COAST_AVAILABLE,    \* main.py:38-44
    LINGFEAT_AVAILABLE, \* main.py:47-53
    pc,                 \* position of the /analyze handler
    request,            \* AnalysisRequest.segments of the request in progress
    results,            \* the handler's local list `results`
    response,           \* what the caller receives
    ret                 \* the last direct call of a component function

vars == <<nlp, COAST_AVAILABLE, LINGFEAT_AVAILABLE, pc, request, results,
          response, ret>>

-----------------------------------------------------------------------------
(* Bounds of the model *)

\* longest batch a request carries
MaxSegs == 2
\* a text is a concatenation of at most MaxPieces pieces
MaxPieces == 2
\* most tokens the tagger yields in a direct call of analyze_pos
MaxTags == 2

-----------------------------------------------------------------------------
(* Characters and Python's str primitives *)

UpperLetters ==
    <<"A","B","C","D","E","F","G","H","I","J","K","L","M",
      "N","O","P","Q","R","S","T","U","V","W","X","Y","Z">>

LowerLetters ==
    <<"a","b","c","d","e","f","g","h","i","j","k","l","m",
      "n","o","p","q","r","s","t","u","v","w","x","y","z">>

Digits == {"0","1","2","3","4","5","6","7","8","9"}

Range(s) == { s[i] : i \in DOMAIN s }

\* the lower-case letter of each upper-case letter
LowerOf ==
    [ c \in Range(UpperLetters) |->
        LowerLetters[CHOOSE i \in DOMAIN UpperLetters : UpperLetters[i] = c] ]

\* str.lower() on one character
LowerChar(c) == IF c \in DOMAIN LowerOf THEN LowerOf[c] ELSE c

\* str.lower()
Lower(text) == [ i \in DOMAIN text |-> LowerChar(text[i]) ]

\* the characters str.strip() and str.split() treat as whitespace
Whitespace == {" ", "\t", "\n", "\r"}

IsSpace(c) == c \in Whitespace

\* the characters the regular expression class \w matches
WordChars ==
    Range(UpperLetters) \cup Range(LowerLetters) \cup Digits \cup {"_"}

IsWordChar(c) == c \in WordChars

\* str.strip(): drop leading and trailing whitespace
Strip(text) ==
    LET keep == { i \in DOMAIN text : ~IsSpace(text[i]) }
    IN  IF keep = {} THEN << >>
        ELSE LET lo == CHOOSE i \in keep : \A j \in keep : i <= j
                 hi == CHOOSE i \in keep : \A j \in keep : j <= i
             IN  SubSeq(text, lo, hi)

\* str.split(): the maximal runs of non-whitespace characters, in order
RECURSIVE SplitFrom(_, _, _)
SplitFrom(text, i, word) ==
    IF i > Len(text)
    THEN IF word = << >> THEN << >> ELSE << word >>
    ELSE IF IsSpace(text[i])
         THEN (IF word = << >> THEN << >> ELSE << word >>)
              \o SplitFrom(text, i + 1, << >>)
         ELSE SplitFrom(text, i + 1, Append(word, text[i]))

Split(text) == SplitFrom(text, 1, << >>)

\* needle occurs in hay at position i
MatchAt(needle, hay, i) ==
    /\ i >= 1
    /\ i + Len(needle) - 1 <= Len(hay)
    /\ \A k \in 1..Len(needle) : hay[i + k - 1] = needle[k]

\* Python's `needle in hay` on strings
Contains(needle, hay) ==
    \E i \in 1..(Len(hay) - Len(needle) + 1) : MatchAt(needle, hay, i)

\* the regular expression assertion \b between hay[p-1] and hay[p]: exactly
\* one of the two neighbours is a \w character (outside the string counts as
\* not \w)
WordBoundary(hay, p) ==
    LET before == p - 1 >= 1 /\ p - 1 <= Len(hay) /\ IsWordChar(hay[p - 1])
        after  == p >= 1 /\ p <= Len(hay) /\ IsWordChar(hay[p])
    IN  before # after

\* SearchBounded with the two \b assertions left out: a raw substring search
SearchBounded_Substring(marker, hay) == Contains(marker, hay)

\* re.search(r'\b' + re.escape(marker) + r'\b', hay) finds a match
SearchBounded(marker, hay) ==
    \E i \in 1..(Len(hay) - Len(marker) + 1) :
        /\ MatchAt(marker, hay, i)
        /\ WordBoundary(hay, i)
        /\ WordBoundary(hay, i + Len(marker))

-----------------------------------------------------------------------------
(* Floats as exact rationals *)

Rat(n, d) == [n |-> n, d |-> d]

RLe(a, b) == a.n * b.d <= b.n * a.d
RLt(a, b) == a.n * b.d < b.n * a.d
REq(a, b) == a.n * b.d = b.n * a.d
RMin(a, b) == IF RLe(a, b) THEN a ELSE b
RMax(a, b) == IF RLe(b, a) THEN a ELSE b
RAdd(a, b) == Rat(a.n * b.d + b.n * a.d, a.d * b.d)
RMul(a, b) == Rat(a.n * b.n, a.d * b.d)
RDiv(a, b) == IF b.n > 0 THEN Rat(a.n * b.d, a.d * b.n)
                         ELSE Rat(-(a.n * b.d), a.d * (-b.n))
RInt(k) == Rat(k, 1)

\* round(x, 2) as a count of hundredths (ties go to the even hundredth)
Round2(x) ==
    LET num == 100 * x.n
        q   == num \div x.d
        r   == num % x.d
    IN  IF 2 * r < x.d THEN q
        ELSE IF 2 * r > x.d THEN q + 1
        ELSE IF q % 2 = 0 THEN q ELSE q + 1

-----------------------------------------------------------------------------
(* Response models and constants of main.py *)

\* Python's None, and a present Optional value
None == [present |-> FALSE]

\* POSCounts()
POSCounts ==
    [nouns |-> 0, verbs |-> 0, adjectives |-> 0, adverbs |-> 0,
     pronouns |-> 0, prepositions |-> 0, conjunctions |-> 0, interjections |-> 0]

\* ReadabilityMetrics()
ReadabilityMetrics ==
    [flesch_reading_ease |-> Rat(0, 1), flesch_kincaid_grade |-> Rat(0, 1),
     gunning_fog |-> Rat(0, 1), smog_index |-> Rat(0, 1),
     automated_readability_index |-> Rat(0, 1),
     coleman_liau_index |-> Rat(0, 1)]

\* LingFeatSummary(lexical_diversity=.., avg_word_length=.., sentence_complexity=..)
LingFeatSummary(ld, awl, sc) ==
    [present |-> TRUE, lexical_diversity |-> ld, avg_word_length |-> awl,
     sentence_complexity |-> sc]

\* the set literal DISCOURSE_MARKERS (a set: the literal's repeated "so",
\* "right" and "okay" collapse)
DISCOURSE_MARKERS ==
    { <<"a","l","s","o">>,
      <<"a","n","d">>,
      <<"b","e","s","i","d","e","s">>,
      <<"f","u","r","t","h","e","r","m","o","r","e">>,
      <<"m","o","r","e","o","v","e","r">>,
      <<"a","d","d","i","t","i","o","n","a","l","l","y">>,
      <<"p","l","u","s">>,
      <<"b","u","t">>,
      <<"h","o","w","e","v","e","r">>,
      <<"a","l","t","h","o","u","g","h">>,
      <<"t","h","o","u","g","h">>,
      <<"y","e","t">>,
      <<"s","t","i","l","l">>,
      <<"n","e","v","e","r","t","h","e","l","e","s","s">>,
      <<"n","o","n","e","t","h","e","l","e","s","s">>,
      <<"o","n"," ","t","h","e"," ","o","t","h","e","r"," ","h","a","n","d">>,
      <<"i","n"," ","c","o","n","t","r","a","s","t">>,
      <<"c","o","n","v","e","r","s","e","l","y">>,
      <<"b","e","c","a","u","s","e">>,
      <<"s","i","n","c","e">>,
      <<"t","h","e","r","e","f","o","r","e">>,
      <<"t","h","u","s">>,
      <<"s","o">>,
      <<"h","e","n","c","e">>,
      <<"c","o","n","s","e","q","u","e","n","t","l","y">>,
      <<"a","s"," ","a"," ","r","e","s","u","l","t">>,
      <<"t","h","e","n">>,
      <<"f","i","r","s","t">>,
      <<"n","e","x","t">>,
      <<"f","i","n","a","l","l","y">>,
      <<"m","e","a","n","w","h","i","l","e">>,
      <<"a","f","t","e","r","w","a","r","d","s">>,
      <<"p","r","e","v","i","o","u","s","l","y">>,
      <<"s","u","b","s","e","q","u","e","n","t","l","y">>,
      <<"w","e","l","l">>,
      <<"n","o","w">>,
      <<"o","k","a","y">>,
      <<"r","i","g","h","t">>,
      <<"a","n","y","w","a","y">>,
      <<"a","c","t","u","a","l","l","y">>,
      <<"b","a","s","i","c","a","l","l","y">>,
      <<"l","i","k","e">>,
      <<"s","o","r","t"," ","o","f">>,
      <<"k","i","n","d"," ","o","f">>,
      <<"i"," ","t","h","i","n","k">>,
      <<"i"," ","g","u","e","s","s">>,
      <<"m","a","y","b","e">>,
      <<"p","e","r","h","a","p","s">>,
      <<"p","r","o","b","a","b","l","y">>,
      <<"y","e","s">>,
      <<"y","e","a","h">>,
      <<"n","o">>,
      <<"s","u","r","e">>,
      <<"a","b","s","o","l","u","t","e","l","y">> }

\* the list personal_pronouns of analyze_orality
personal_pronouns ==
    { <<"i">>, <<"y","o","u">>, <<"w","e">>, <<"m","e">>, <<"m","y">>,
      <<"y","o","u","r">>, <<"o","u","r">> }

\* the list contractions of analyze_orality
contractions ==
    { <<"'","m">>, <<"'","r","e">>, <<"'","v","e">>, <<"'","l","l">>,
      <<"'","d">>, <<"n","'","t">>, <<"'","s">> }

-----------------------------------------------------------------------------
(* Calls of the external capabilities: each raises or returns *)

Raised(who) == [raised |-> TRUE, exc |-> who]
Returned(v) == [raised |-> FALSE, value |-> v]

-----------------------------------------------------------------------------
(* analyze_pos *)

\* CountTag with the PROPN alternative of the first test left out
CountTag_NoPropn(counts, pos) ==
    IF pos = "NOUN"
    THEN [counts EXCEPT !.nouns = @ + 1]
    ELSE IF pos = "VERB" \/ pos = "AUX"
    THEN [counts EXCEPT !.verbs = @ + 1]
    ELSE IF pos = "ADJ"
    THEN [counts EXCEPT !.adjectives = @ + 1]
    ELSE IF pos = "ADV"
    THEN [counts EXCEPT !.adverbs = @ + 1]
    ELSE IF pos = "PRON"
    THEN [counts EXCEPT !.pronouns = @ + 1]
    ELSE IF pos = "ADP"
    THEN [counts EXCEPT !.prepositions = @ + 1]
    ELSE IF pos = "CCONJ" \/ pos = "SCONJ"
    THEN [counts EXCEPT !.conjunctions = @ + 1]
    ELSE IF pos = "INTJ"
    THEN [counts EXCEPT !.interjections = @ + 1]
    ELSE counts

\* one pass of the loop body `for token in doc` on a tag
CountTag(counts, pos) ==
    IF pos = "NOUN" \/ pos = "PROPN"
    THEN [counts EXCEPT !.nouns = @ + 1]
    ELSE IF pos = "VERB" \/ pos = "AUX"
    THEN [counts EXCEPT !.verbs = @ + 1]
    ELSE IF pos = "ADJ"
    THEN [counts EXCEPT !.adjectives = @ + 1]
    ELSE IF pos = "ADV"
    THEN [counts EXCEPT !.adverbs = @ + 1]
    ELSE IF pos = "PRON"
    THEN [counts EXCEPT !.pronouns = @ + 1]
    ELSE IF pos = "ADP"
    THEN [counts EXCEPT !.prepositions = @ + 1]
    ELSE IF pos = "CCONJ" \/ pos = "SCONJ"
    THEN [counts EXCEPT !.conjunctions = @ + 1]
    ELSE IF pos = "INTJ"
    THEN [counts EXCEPT !.interjections = @ + 1]
    ELSE counts

RECURSIVE CountTags(_, _, _)
CountTags(doc, i, counts) ==
    IF i > Len(doc) THEN counts
    ELSE CountTags(doc, i + 1, CountTag(counts, doc[i]))

\* analyze_pos(text); tagger is the call nlp(text): it raises, or returns the
\* sequence of token.pos_ of the document.  The call is made outside any try.
analyze_pos(text, tagger) ==
    IF ~nlp THEN Returned(POSCounts)
    ELSE IF tagger.raised THEN tagger
    ELSE Returned(CountTags(tagger.value, 1, POSCounts))

-----------------------------------------------------------------------------
(* analyze_readability *)

\* analyze_readability(text); stat is the six textstat calls taken together:
\* one of them raises, or all six return
analyze_readability(text, stat) ==
    IF Strip(text) = << >> THEN <<Rat(0, 1), ReadabilityMetrics>>
    ELSE IF stat.raised THEN <<Rat(0, 1), ReadabilityMetrics>>
    ELSE LET metrics == stat.value
             primary_score ==
                 RMax(Rat(0, 1), RMin(Rat(100, 1), metrics.flesch_reading_ease))
         IN  <<primary_score, metrics>>

-----------------------------------------------------------------------------
(* analyze_orality *)

\* min(discourse_density * 5, 25), given text.lower() and word_count
DiscourseIndicator(text_lower, word_count) ==
    LET discourse_count ==
            Cardinality({ marker \in DISCOURSE_MARKERS :
                            Contains(marker, text_lower) })
        discourse_density == RMul(Rat(discourse_count, word_count), RInt(100))
    IN  RMin(RMul(discourse_density, RInt(5)), RInt(25))

\* min(pronoun_density * 3, 25), given words
PronounIndicator(words) ==
    LET word_count == Len(words)
        pronoun_count ==
            Cardinality({ i \in DOMAIN words : words[i] \in personal_pronouns })
        pronoun_density == RMul(Rat(pronoun_count, word_count), RInt(100))
    IN  RMin(RMul(pronoun_density, RInt(3)), RInt(25))

RECURSIVE SumLen(_, _)
SumLen(words, i) ==
    IF i > Len(words) THEN 0 ELSE Len(words[i]) + SumLen(words, i + 1)

\* the points of the avg_word_len if/elif chain, given words
WordLengthIndicator(words) ==
    LET word_count == Len(words)
        avg_word_len == Rat(SumLen(words, 1), word_count)
    IN  IF RLt(avg_word_len, RInt(4)) THEN RInt(25)
        ELSE IF RLt(avg_word_len, RInt(5)) THEN RInt(15)
        ELSE IF RLt(avg_word_len, RInt(6)) THEN RInt(5)
        ELSE RInt(0)

\* min(contraction_count * 5, 25), given text.lower()
ContractionIndicator(text_lower) ==
    LET contraction_count ==
            Cardinality({ c \in contractions : Contains(c, text_lower) })
    IN  RMin(RInt(contraction_count * 5), RInt(25))

\* the value of total_weight at the return statement: 25 is added four times
total_weight == 25 + 25 + 25 + 25

\* the fallback with both neutral returns giving 0 in place of 50
HeuristicOrality_EmptyZero(text) ==
    IF Strip(text) = << >> THEN RInt(0)
    ELSE LET text_lower == Lower(text)
             words == Split(text_lower)
             word_count == Len(words)
             orality_indicators ==
                 RAdd(RAdd(DiscourseIndicator(text_lower, word_count),
                           PronounIndicator(words)),
                      RAdd(WordLengthIndicator(words),
                           ContractionIndicator(text_lower)))
         IN  IF word_count = 0 THEN RInt(0)
             ELSE RMul(RDiv(orality_indicators, RInt(total_weight)), RInt(100))

\* the fallback with orality_indicators kept from the previous call in place
\* of starting at 0.0
HeuristicOrality_Carried(text) ==
    LET carried == IF results = << >> THEN RInt(0)
                   ELSE Rat(results[Len(results)].orality_score, 100)
    IN  IF Strip(text) = << >> THEN RInt(50)
        ELSE LET text_lower == Lower(text)
                 words == Split(text_lower)
                 word_count == Len(words)
                 orality_indicators ==
                     RAdd(RAdd(RAdd(carried,
                                    DiscourseIndicator(text_lower, word_count)),
                               PronounIndicator(words)),
                          RAdd(WordLengthIndicator(words),
                               ContractionIndicator(text_lower)))
             IN  IF word_count = 0 THEN RInt(50)
                 ELSE RMul(RDiv(orality_indicators, RInt(total_weight)), RInt(100))

\* the fallback part of analyze_orality, from `if not text.strip()` on
HeuristicOrality(text) ==
    IF Strip(text) = << >> THEN RInt(50)
    ELSE LET text_lower == Lower(text)
             words == Split(text_lower)
             word_count == Len(words)
             orality_indicators ==
                 RAdd(RAdd(DiscourseIndicator(text_lower, word_count),
                           PronounIndicator(words)),
                      RAdd(WordLengthIndicator(words),
                           ContractionIndicator(text_lower)))
         IN  IF word_count = 0 THEN RInt(50)
             ELSE IF total_weight > 0
             THEN RMul(RDiv(orality_indicators, RInt(total_weight)), RInt(100))
             ELSE RInt(50)

\* analyze_orality without the clamp min(100.0, max(0.0, ...))
analyze_orality_NoClamp(text, model) ==
    IF COAST_AVAILABLE /\ ~model.raised
    THEN RMul(model.value, RInt(100))
    ELSE HeuristicOrality(text)

\* analyze_orality returning the neutral 50.0 from the except clause in place
\* of falling through to the heuristic
analyze_orality_NeutralOnFailure(text, model) ==
    IF COAST_AVAILABLE
    THEN IF model.raised THEN RInt(50)
         ELSE RMin(RInt(100), RMax(RInt(0), RMul(model.value, RInt(100))))
    ELSE HeuristicOrality(text)

\* analyze_orality(text); model is the call coast.orality_score(text), made
\* only when COAST_AVAILABLE
analyze_orality(text, model) ==
    IF COAST_AVAILABLE /\ ~model.raised
    THEN RMin(RInt(100), RMax(RInt(0), RMul(model.value, RInt(100))))
    ELSE HeuristicOrality(text)

-----------------------------------------------------------------------------
(* extract_discourse_markers *)

\* the markers extract_discourse_markers appends to `found`
FoundMarkers(text) ==
    LET text_lower == Lower(text)
    IN  { marker \in DISCOURSE_MARKERS :
            /\ Contains(marker, text_lower)
            /\ SearchBounded(marker, text_lower) }

\* the lists with exactly the members of S, each once
Orderings(S) ==
    { f \in [1..Cardinality(S) -> S] : \A m \in S : \E i \in DOMAIN f : f[i] = m }

\* extract_discourse_markers(text): the lists it can return.  The loop runs
\* over a set of str, whose iteration order depends on the process's string
\* hashing, so every order of the found markers is possible.
extract_discourse_markers(text) == Orderings(FoundMarkers(text))

-----------------------------------------------------------------------------
(* analyze_lingfeat *)

\* dict.get(key, default)
Get(features, key, default) ==
    IF key \in DOMAIN features THEN features[key] ELSE default

\* analyze_lingfeat returning a default LingFeatSummary() from the except
\* clause in place of None
analyze_lingfeat_ZeroOnFailure(text, extraction) ==
    IF ~LINGFEAT_AVAILABLE \/ Strip(text) = << >> THEN None
    ELSE IF extraction.raised
    THEN LingFeatSummary(Rat(0, 1), Rat(0, 1), Rat(0, 1))
    ELSE LET features == extraction.value
         IN  LingFeatSummary(Get(features, "LexicalDiversity", Rat(0, 1)),
                             Get(features, "AvgWordLength", Rat(0, 1)),
                             Get(features, "SentenceComplexity", Rat(0, 1)))

\* analyze_lingfeat(text); extraction is the calls pass_text(text),
\* preprocess() and extract() taken together, made only when the branch is
\* taken
analyze_lingfeat(text, extraction) ==
    IF ~LINGFEAT_AVAILABLE \/ Strip(text) = << >> THEN None
    ELSE IF extraction.raised THEN None
    ELSE LET features == extraction.value
         IN  LingFeatSummary(Get(features, "LexicalDiversity", Rat(0, 1)),
                             Get(features, "AvgWordLength", Rat(0, 1)),
                             Get(features, "SentenceComplexity", Rat(0, 1)))

-----------------------------------------------------------------------------
(* analyze_segment *)

\* SegmentResult numbered by position in the batch in place of the
\* segment's own segment_index
SegmentResult_Renumbered(segment, text, pos, readability, orality, markers, lingfeat) ==
    [segment_index |-> Len(results) + 1,
     text |-> text,
     orality_score |-> Round2(orality),
     parts_of_speech |-> pos,
     discourse_markers |-> markers,
     readability_score |-> Round2(readability[1]),
     readability_metrics |-> readability[2],
     lingfeat_summary |-> lingfeat]

\* SegmentResult(...) as analyze_segment builds it
SegmentResult(segment, text, pos, readability, orality, markers, lingfeat) ==
    [segment_index |-> segment.segment_index,
     text |-> text,
     orality_score |-> Round2(orality),
     parts_of_speech |-> pos,
     discourse_markers |-> markers,
     readability_score |-> Round2(readability[1]),
     readability_metrics |-> readability[2],
     lingfeat_summary |-> lingfeat]

\* analyze_segment(segment); env holds what each external call of this
\* analysis does (tagger, textstat, coast, lingfeat) and the list
\* extract_discourse_markers returns (markers)
analyze_segment(segment, env) ==
    LET text == Strip(segment.text)
        pos == analyze_pos(text, env.tagger)
    IN  IF pos.raised THEN pos
        ELSE Returned(SegmentResult(segment, text, pos.value,
                                    analyze_readability(text, env.textstat),
                                    analyze_orality(text, env.coast),
                                    env.markers,
                                    analyze_lingfeat(text, env.lingfeat)))

-----------------------------------------------------------------------------
(* Inputs: texts, segments, and what the external calls can do *)

\* the pieces texts are built from
Pieces ==
    { <<" ">>,
      <<"S","o">>,
      <<"G","a","s","o","l","i","n","e">>,
      <<" ","i","s"," ","e","x","p","e","n","s","i","v","e">>,
      <<"I"," ","t","h","i","n","k">>,
      <<"'","s">>,
      <<"i","n","g">> }

RECURSIVE Concats(_)
Concats(k) ==
    IF k = 0 THEN { << >> }
    ELSE LET shorter == Concats(k - 1)
         IN  shorter \cup { t \o p : t \in shorter, p \in Pieces }

\* the texts a component function is called with
Texts == Concats(MaxPieces)

\* the texts the segments of a batch carry: the empty text, and one with
\* words and whitespace around them
BatchTexts ==
    { << >>,
      <<" ","S","o"," ","I","'","m"," ">> }

\* the segment_index values of a batch
Indices == {1, 2, 3}

Segments(indices, texts) == [segment_index : indices, text : texts]

RECURSIVE SeqsUpTo(_, _)
SeqsUpTo(S, k) ==
    IF k = 0 THEN { << >> }
    ELSE LET shorter == SeqsUpTo(S, k - 1)
         IN  shorter \cup { Append(q, x) : q \in shorter, x \in S }

\* the batches a request carries
Batches == SeqsUpTo(Segments(Indices, BatchTexts), MaxSegs)

\* an external call that the code does not make
NotCalled == [called |-> FALSE]

Calls(made, outcomes) == IF made THEN outcomes ELSE { NotCalled }

\* token.pos_ values: the universal tags of the mapping, and three outside it
Tags ==
    { "NOUN", "PROPN", "VERB", "AUX", "ADJ", "ADV", "PRON", "ADP", "CCONJ",
      "SCONJ", "INTJ", "DET", "PUNCT", "X" }

\* nlp(text): raises, or yields one tag per token (none for the empty text)
TaggerOutcomes(text, docs) ==
    { Raised("tagger") }
        \cup { Returned(doc) : doc \in (IF text = << >> THEN { << >> } ELSE docs) }

\* coast.orality_score(text): raises, or returns a float (a well-behaved
\* model stays in [0, 1]; the clamp exists for one that does not)
CoastOutcomes(scores) == { Raised("coast") } \cup { Returned(x) : x \in scores }

CoastScores == { Rat(-1, 2), Rat(1, 3), Rat(3, 2) }

\* the six textstat calls: one raises, or all return
TextstatMetrics(flesch) ==
    [flesch_reading_ease |-> flesch, flesch_kincaid_grade |-> Rat(52, 10),
     gunning_fog |-> Rat(8, 1), smog_index |-> Rat(0, 1),
     automated_readability_index |-> Rat(-13, 10),
     coleman_liau_index |-> Rat(71, 10)]

TextstatOutcomes(fleschs) ==
    { Raised("textstat") } \cup { Returned(TextstatMetrics(f)) : f \in fleschs }

FleschValues == { Rat(-255, 10), Rat(61245, 1000), Rat(1206, 10) }

\* the LingFeat feature mapping: any of the three keys may be missing
FeatureKeys == { "LexicalDiversity", "AvgWordLength", "SentenceComplexity" }

FeatureValue(key) ==
    IF key = "LexicalDiversity" THEN Rat(3, 4)
    ELSE IF key = "AvgWordLength" THEN Rat(9, 2)
    ELSE Rat(12, 1)

FeatureMaps(keysets) == { [ k \in S |-> FeatureValue(k) ] : S \in keysets }

LingfeatOutcomes(keysets) ==
    { Raised("lingfeat") } \cup { Returned(f) : f \in FeatureMaps(keysets) }

\* what the external calls of one analyze_segment(segment) can do
SegmentEnvs(segment, docs, fleschs, scores, keysets) ==
    LET text == Strip(segment.text)
    IN  [ tagger   : Calls(nlp, TaggerOutcomes(text, docs)),
          textstat : Calls(text # << >>, TextstatOutcomes(fleschs)),
          coast    : Calls(COAST_AVAILABLE, CoastOutcomes(scores)),
          markers  : extract_discourse_markers(text),
          lingfeat : Calls(LINGFEAT_AVAILABLE /\ text # << >>,
                           LingfeatOutcomes(keysets)) ]

-----------------------------------------------------------------------------
(* The POST /analyze handler *)

NoResponse == [status |-> 0]
NoCall == [fn |-> "none"]

\* the state after the module is imported: each optional capability loaded or
\* not, no request in progress
Init ==
    /\ nlp \in BOOLEAN
    /\ COAST_AVAILABLE \in BOOLEAN
    /\ LINGFEAT_AVAILABLE \in BOOLEAN
    /\ pc = "idle"
    /\ request = << >>
    /\ results = << >>
    /\ response = NoResponse
    /\ ret = NoCall

\* a request arrives: `results = []`
Post ==
    /\ pc = "idle"
    /\ \E segments \in Batches : request' = segments
    /\ results' = << >>
    /\ response' = NoResponse
    /\ pc' = "loop"
    /\ UNCHANGED <<nlp, COAST_AVAILABLE, LINGFEAT_AVAILABLE, ret>>

\* LoopStep with an except clause that returns what was analysed so far, as
\* AnalysisResponse(success=False, error=str(e), results=results)
LoopStep_PartialResults ==
    /\ pc = "loop"
    /\ Len(results) < Len(request)
    /\ LET segment == request[Len(results) + 1]
       IN  \E env \in SegmentEnvs(segment, { <<"PRON", "DET", "VERB">> },
                                  { Rat(61245, 1000) }, { Rat(1, 3) },
                                  { {"LexicalDiversity"} }) :
               LET result == analyze_segment(segment, env)
               IN  IF result.raised
                   THEN /\ response' = [status |-> 200,
                                        body |-> [success |-> FALSE,
                                                  error |-> result.exc,
                                                  results |-> results]]
                        /\ pc' = "done"
                        /\ UNCHANGED results
                   ELSE /\ results' = Append(results, result.value)
                        /\ UNCHANGED <<response, pc>>
    /\ UNCHANGED <<nlp, COAST_AVAILABLE, LINGFEAT_AVAILABLE, request, ret>>

\* one pass of `for segment in request.segments`: analyze_segment returns and
\* its result is appended, or it raises and the except clause raises
\* HTTPException(status_code=500, detail=str(e))
LoopStep ==
    /\ pc = "loop"
    /\ Len(results) < Len(request)
    /\ LET segment == request[Len(results) + 1]
       IN  \E env \in SegmentEnvs(segment, { <<"PRON", "DET", "VERB">> },
                                  { Rat(61245, 1000) }, { Rat(1, 3) },
                                  { {"LexicalDiversity"} }) :
               LET result == analyze_segment(segment, env)
               IN  IF result.raised
                   THEN /\ response' = [status |-> 500,
                                        body |-> [detail |-> result.exc]]
                        /\ pc' = "done"
                        /\ UNCHANGED results
                   ELSE /\ results' = Append(results, result.value)
                        /\ UNCHANGED <<response, pc>>
    /\ UNCHANGED <<nlp, COAST_AVAILABLE, LINGFEAT_AVAILABLE, request, ret>>

\* the loop is over: `return AnalysisResponse(success=True, results=results)`
Return ==
    /\ pc = "loop"
    /\ Len(results) = Len(request)
    /\ response' = [status |-> 200,
                    body |-> [success |-> TRUE, error |-> None,
                              results |-> results]]
    /\ pc' = "done"
    /\ UNCHANGED <<nlp, COAST_AVAILABLE, LINGFEAT_AVAILABLE, request, results, ret>>

\* the caller has the response; the handler's locals are gone
Finish ==
    /\ pc = "done"
    /\ pc' = "idle"
    /\ request' = << >>
    /\ results' = << >>
    /\ response' = NoResponse
    /\ UNCHANGED <<nlp, COAST_AVAILABLE, LINGFEAT_AVAILABLE, ret>>

Next == Post \/ LoopStep \/ Return \/ Finish

Spec == Init /\ [][Next]_vars

-----------------------------------------------------------------------------
(* Direct calls of the component functions: one call in each behaviour,   *)
(* recorded in ret with its argument, what the external call did (ext) and *)
(* what the function returned or raised (out)                              *)

Handler == <<nlp, COAST_AVAILABLE, LINGFEAT_AVAILABLE, pc, request, results,
             response>>

CallPos ==
    /\ ret.fn = "none"
    /\ \E text \in { << >>, <<"S","o">> } :
         \E tagger \in Calls(nlp, TaggerOutcomes(text, SeqsUpTo(Tags, MaxTags))) :
           ret' = [fn |-> "analyze_pos", arg |-> text, ext |-> tagger,
                   out |-> analyze_pos(text, tagger)]
    /\ UNCHANGED Handler

CallReadability ==
    /\ ret.fn = "none"
    /\ \E text \in Texts :
         \E stat \in Calls(Strip(text) # << >>, TextstatOutcomes(FleschValues)) :
           ret' = [fn |-> "analyze_readability", arg |-> text, ext |-> stat,
                   out |-> analyze_readability(text, stat)]
    /\ UNCHANGED Handler

CallOrality ==
    /\ ret.fn = "none"
    /\ \E text \in Texts :
         \E model \in Calls(COAST_AVAILABLE, CoastOutcomes(CoastScores)) :
           ret' = [fn |-> "analyze_orality", arg |-> text, ext |-> model,
                   out |-> analyze_orality(text, model)]
    /\ UNCHANGED Handler

CallMarkers ==
    /\ ret.fn = "none"
    /\ \E text \in Texts :
         \E found \in extract_discourse_markers(text) :
           ret' = [fn |-> "extract_discourse_markers", arg |-> text,
                   ext |-> NotCalled, out |-> found]
    /\ UNCHANGED Handler

CallLingfeat ==
    /\ ret.fn = "none"
    /\ \E text \in Texts :
         \E extraction \in Calls(LINGFEAT_AVAILABLE /\ Strip(text) # << >>,
                                  LingfeatOutcomes(SUBSET FeatureKeys)) :
           ret' = [fn |-> "analyze_lingfeat", arg |-> text, ext |-> extraction,
                   out |-> analyze_lingfeat(text, extraction)]
    /\ UNCHANGED Handler

CallSegment ==
    /\ ret.fn = "none"
    /\ \E segment \in Segments({1}, Texts) :
         \E env \in SegmentEnvs(segment, { <<"PRON", "DET", "VERB">> },
                                { Rat(-255, 10), Rat(1206, 10) }, CoastScores,
                                { {"LexicalDiversity"} }) :
           ret' = [fn |-> "analyze_segment", arg |-> segment, ext |-> env,
                   out |-> analyze_segment(segment, env)]
    /\ UNCHANGED Handler

NextComponents ==
    \/ CallPos \/ CallReadability \/ CallOrality
    \/ CallMarkers \/ CallLingfeat \/ CallSegment

SpecComponents == Init /\ [][NextComponents]_vars

-----------------------------------------------------------------------------
(* Properties *)

Done200 == pc = "done" /\ response.status = 200
Done500 == pc = "done" /\ response.status = 500

\* the result of a direct call analyze_segment(segment) that returned
SegmentReturned == ret.fn = "analyze_segment" /\ ~ret.out.raised

GasolineIsExpensive ==
    <<"G","a","s","o","l","i","n","e">>
        \o <<" ","i","s"," ","e","x","p","e","n","s","i","v","e">>

\* C1: POST /analyze is all-or-nothing.  Nothing is returned while the loop
\* runs; a finished request has either status 200 and exactly one result for
\* each submitted segment, or status 500 and a body that carries no results
\* at all, whatever had been analysed before the failing segment.
C1_AllOrNothing ==
    /\ pc \in {"idle", "loop"} => response = NoResponse
    /\ pc = "done" =>
        \/ /\ response.status = 200
           /\ response.body.success
           /\ Len(response.body.results) = Len(request)
           /\ response.body.results = results
        \/ /\ response.status = 500
           /\ "results" \notin DOMAIN response.body
           /\ Len(results) < Len(request)

\* C1 witness: a batch fails at its second segment, after the first segment
\* was analysed
C1_Witness == Done500 /\ Len(request) = 2 /\ Len(results) = 1

\* C2: in every successful batch the i-th result carries the i-th segment's
\* segment_index, and there are as many results as segments.
C2_IndicesMirrorInput ==
    Done200 =>
        /\ Len(response.body.results) = Len(request)
        /\ \A i \in DOMAIN request :
               response.body.results[i].segment_index = request[i].segment_index

\* C2 witness: a successful batch whose indices are unsorted
C2_Witness ==
    /\ Done200
    /\ Len(request) = 2
    /\ request[1].segment_index = 3
    /\ request[2].segment_index = 1
    /\ response.body.results[1].segment_index = 3

\* C3: orality_score and readability_score of every SegmentResult lie in
\* [0, 100] (0..10000 hundredths), whatever the orality model and the
\* readability calculator do; what analyze_orality returns lies in [0, 100],
\* and each of the four heuristic indicators lies in [0, 25], so that their
\* sum is at most 100.
C3_ScoresInRange ==
    /\ SegmentReturned =>
        /\ 0 <= ret.out.value.orality_score
        /\ ret.out.value.orality_score <= 10000
        /\ 0 <= ret.out.value.readability_score
        /\ ret.out.value.readability_score <= 10000
    /\ ret.fn = "analyze_orality" =>
        /\ RLe(RInt(0), ret.out) /\ RLe(ret.out, RInt(100))
        /\ Strip(ret.arg) # << >> =>
            LET text_lower == Lower(ret.arg)
                words == Split(text_lower)
                indicators == << DiscourseIndicator(text_lower, Len(words)),
                                 PronounIndicator(words),
                                 WordLengthIndicator(words),
                                 ContractionIndicator(text_lower) >>
            IN  /\ \A k \in 1..4 : /\ RLe(RInt(0), indicators[k])
                                   /\ RLe(indicators[k], RInt(25))
                /\ RLe(RAdd(RAdd(indicators[1], indicators[2]),
                            RAdd(indicators[3], indicators[4])), RInt(100))

\* C3 witness: the model returns 1.5 and Flesch Reading Ease is negative; the
\* scores are 100.0 and 0.0
C3_Witness ==
    /\ SegmentReturned
    /\ COAST_AVAILABLE
    /\ ~ret.ext.coast.raised
    /\ ret.ext.coast.value = Rat(3, 2)
    /\ ret.out.value.text # << >>
    /\ ~ret.ext.textstat.raised
    /\ ret.ext.textstat.value.flesch_reading_ease = Rat(-255, 10)
    /\ ret.out.value.orality_score = 10000
    /\ ret.out.value.readability_score = 0

\* C4 as stated: an empty or whitespace-only segment gets orality 50.0,
\* readability 0.0, no discourse markers and all-zero POSCounts in every
\* configuration of the capabilities.
C4_EmptyTextAlwaysNeutral ==
    (SegmentReturned /\ Strip(ret.arg.text) = << >>) =>
        /\ ret.out.value.orality_score = 5000
        /\ ret.out.value.readability_score = 0
        /\ ret.out.value.discourse_markers = << >>
        /\ ret.out.value.parts_of_speech = POSCounts

\* the model's score times 100, clamped to [0, 100], in hundredths
ClampedPercent(x) ==
    IF x.n < 0 THEN 0
    ELSE IF x.n > x.d THEN 10000
    ELSE Round2(Rat(100 * x.n, x.d))

\* C4 amended: an empty or whitespace-only segment gets readability 0.0, no
\* discourse markers and all-zero POSCounts in every configuration; its
\* orality is 50.0 when the orality model is unavailable or its call raises,
\* and the model's clamped score otherwise.
C4_EmptyTextDegraded ==
    (SegmentReturned /\ Strip(ret.arg.text) = << >>) =>
        /\ ret.out.value.readability_score = 0
        /\ ret.out.value.discourse_markers = << >>
        /\ ret.out.value.parts_of_speech = POSCounts
        /\ ret.out.value.orality_score =
               IF COAST_AVAILABLE /\ ~ret.ext.coast.raised
               THEN ClampedPercent(ret.ext.coast.value)
               ELSE 5000

\* C4 witness: a whitespace-only segment, the tagger loaded, the model
\* available and raising: orality 50.0
C4_Witness ==
    /\ SegmentReturned
    /\ ret.arg.text = <<" ">>
    /\ nlp
    /\ COAST_AVAILABLE
    /\ ret.ext.coast.raised
    /\ ret.out.value.orality_score = 5000

\* C5 as stated: no exception of an external capability call fails the
\* batch (in the model the capability calls are the only source of
\* exceptions, so no request ends with status 500).
C5_NoCapabilityFailureFailsBatch == ~Done500

\* a case-insensitive occurrence of marker at position i of text that is not
\* flanked by a letter, digit or underscore
WholeOccurrence(marker, text, i) ==
    /\ i + Len(marker) - 1 <= Len(text)
    /\ \A k \in 1..Len(marker) : LowerChar(text[i + k - 1]) = marker[k]
    /\ i > 1 => text[i - 1] \notin WordChars
    /\ i + Len(marker) <= Len(text) => text[i + Len(marker)] \notin WordChars

\* C6: extract_discourse_markers returns exactly the lexicon markers that
\* occur in the text as a whole token or phrase, case-insensitively, each at
\* most once.
C6_WholeMarkersOnce ==
    ret.fn = "extract_discourse_markers" =>
        /\ \A i, j \in DOMAIN ret.out : ret.out[i] = ret.out[j] => i = j
        /\ Range(ret.out) =
               { m \in DISCOURSE_MARKERS :
                   \E i \in 1..Len(ret.arg) : WholeOccurrence(m, ret.arg, i) }

\* C6 witness: "Gasoline is expensive" gives no marker, "so" included
C6_Witness ==
    /\ ret.fn = "extract_discourse_markers"
    /\ ret.arg = GasolineIsExpensive
    /\ <<"s","o">> \notin Range(ret.out)
    /\ ret.out = << >>

\* the mapping table of the specification, counter by counter
BucketTags ==
    [nouns |-> {"NOUN", "PROPN"}, verbs |-> {"VERB", "AUX"},
     adjectives |-> {"ADJ"}, adverbs |-> {"ADV"}, pronouns |-> {"PRON"},
     prepositions |-> {"ADP"}, conjunctions |-> {"CCONJ", "SCONJ"},
     interjections |-> {"INTJ"}]

\* C7: without the tagger every POSCounts is all-zero; with it each counter
\* is the number of yielded tags of its row of the table, so a tag outside
\* the table counts nowhere, and analyze_pos raises only if the tagger does.
C7_PosCounts ==
    /\ (SegmentReturned /\ ~nlp) => ret.out.value.parts_of_speech = POSCounts
    /\ ret.fn = "analyze_pos" =>
        IF ~nlp THEN ret.out = Returned(POSCounts)
        ELSE IF ret.ext.raised THEN ret.out.raised
        ELSE /\ ~ret.out.raised
             /\ \A b \in DOMAIN BucketTags :
                    ret.out.value[b] =
                        Cardinality({ i \in DOMAIN ret.ext.value :
                                        ret.ext.value[i] \in BucketTags[b] })

\* C7 witness: the tagger yields PROPN and X: one noun, nothing else
C7_Witness ==
    /\ ret.fn = "analyze_pos"
    /\ nlp
    /\ ~ret.ext.raised
    /\ ret.ext.value = <<"PROPN", "X">>
    /\ ret.out.value = [POSCounts EXCEPT !.nouns = 1]

\* the heuristic value of the specification: 50 for an empty or
\* whitespace-only text, otherwise the sum of the four indicators
IndicatorSum(text) ==
    LET text_lower == Lower(text)
        words == Split(text_lower)
    IN  IF Strip(text) = << >> THEN RInt(50)
        ELSE RAdd(RAdd(DiscourseIndicator(text_lower, Len(words)),
                       PronounIndicator(words)),
                  RAdd(WordLengthIndicator(words),
                       ContractionIndicator(text_lower)))

\* C8: analyze_orality returns the model's score times 100 clamped to
\* [0, 100] when the model is available and its call returns, and the
\* heuristic value of the same text when the model is unavailable or its call
\* raises.
C8_TwoTierOrality ==
    ret.fn = "analyze_orality" =>
        IF COAST_AVAILABLE /\ ~ret.ext.raised
        THEN LET scaled == Rat(100 * ret.ext.value.n, ret.ext.value.d)
             IN  /\ RLe(RInt(0), ret.out) /\ RLe(ret.out, RInt(100))
                 /\ (RLe(RInt(0), scaled) /\ RLe(scaled, RInt(100)))
                        => REq(ret.out, scaled)
                 /\ RLt(scaled, RInt(0)) => REq(ret.out, RInt(0))
                 /\ RLt(RInt(100), scaled) => REq(ret.out, RInt(100))
        ELSE REq(ret.out, IndicatorSum(ret.arg))

\* C8 witness: the model is available and raises on "So": the heuristic gives
\* 25 (discourse) + 0 + 25 (short words) + 0
C8_Witness ==
    /\ ret.fn = "analyze_orality"
    /\ COAST_AVAILABLE
    /\ ret.ext.raised
    /\ ret.arg = <<"S","o">>
    /\ REq(ret.out, RInt(50))
    /\ REq(DiscourseIndicator(<<"s","o">>, 1), RInt(25))

\* C9: the summary is present exactly when LingFeat is available, the
\* trimmed text is non-empty and the extraction returns; then each field is
\* the feature of its key, or 0.0 when the key is missing.
C9_SummaryPresence ==
    ret.fn = "analyze_lingfeat" =>
        LET succeeded == /\ LINGFEAT_AVAILABLE
                         /\ Strip(ret.arg) # << >>
                         /\ ~ret.ext.raised
            got(key) == IF key \in DOMAIN ret.ext.value
                        THEN ret.ext.value[key] ELSE Rat(0, 1)
        IN  /\ ret.out.present <=> succeeded
            /\ ~succeeded => ret.out = None
            /\ succeeded =>
                /\ ret.out.lexical_diversity = got("LexicalDiversity")
                /\ ret.out.avg_word_length = got("AvgWordLength")
                /\ ret.out.sentence_complexity = got("SentenceComplexity")

\* C9 witness: the extraction returns only AvgWordLength; the summary is
\* present with the two other fields 0.0
C9_Witness ==
    /\ ret.fn = "analyze_lingfeat"
    /\ LINGFEAT_AVAILABLE
    /\ Strip(ret.arg) # << >>
    /\ ~ret.ext.raised
    /\ DOMAIN ret.ext.value = {"AvgWordLength"}
    /\ ret.out.present
    /\ ret.out.avg_word_length = Rat(9, 2)
    /\ ret.out.lexical_diversity = Rat(0, 1)

====
